---- MODULE Spec2Model ----
(***************************************************************************)
(* Model of script.py: the Bitunix stop-loss manager.                      *)
(*                                                                         *)
(* Numbers.  The program computes with Python floats and, in               *)
(* quantize_price, with Decimal.  Here every number is an exact rational   *)
(* [n |-> numerator, d |-> denominator] in lowest terms with d > 0, so     *)
(* that two equal numbers are the same value.                              *)
(* Strings are sequences of one-character strings.                         *)
(***************************************************************************)
EXTENDS Integers, Sequences, FiniteSets, TLC

(***************************************************************************)
(* Exact arithmetic                                                        *)
(***************************************************************************)
Abs(x) == IF x < 0 THEN -x ELSE x

RECURSIVE GCD(_, _)
GCD(a, b) == IF b = 0 THEN a ELSE GCD(b, a % b)

R(n, d) ==
    LET s == IF d < 0 THEN -1 ELSE 1
        g == GCD(Abs(n), Abs(d))
    IN  [n |-> (s * n) \div g, d |-> (s * d) \div g]

Zero == R(0, 1)
I(k) == R(k, 1)

RAdd(a, b) == R(a.n * b.d + b.n * a.d, a.d * b.d)
RSub(a, b) == R(a.n * b.d - b.n * a.d, a.d * b.d)
RMul(a, b) == R(a.n * b.n, a.d * b.d)
RDiv(a, b) == R(a.n * b.d, a.d * b.n)
RAbs(a) == [n |-> Abs(a.n), d |-> a.d]
RLt(a, b) == a.n * b.d < b.n * a.d
RLeq(a, b) == a.n * b.d <= b.n * a.d
RFloor(a) == a.n \div a.d

(***************************************************************************)
(* Strings                                                                 *)
(***************************************************************************)
LowerCase == <<"a","b","c","d","e","f","g","h","i","j","k","l","m",
               "n","o","p","q","r","s","t","u","v","w","x","y","z">>
UpperCase == <<"A","B","C","D","E","F","G","H","I","J","K","L","M",
               "N","O","P","Q","R","S","T","U","V","W","X","Y","Z">>

UpperChar(c) ==
    IF \E i \in 1..26 : LowerCase[i] = c
    THEN UpperCase[CHOOSE i \in 1..26 : LowerCase[i] = c]
    ELSE c

RECURSIVE Upper(_)
Upper(s) == IF s = <<>> THEN <<>> ELSE <<UpperChar(Head(s))>> \o Upper(Tail(s))

IsSpace(c) == c = " "

RECURSIVE LStrip(_)
LStrip(s) == IF s # <<>> /\ IsSpace(Head(s)) THEN LStrip(Tail(s)) ELSE s

RECURSIVE RStrip(_)
RStrip(s) ==
    IF s # <<>> /\ IsSpace(s[Len(s)]) THEN RStrip(SubSeq(s, 1, Len(s) - 1)) ELSE s

Strip(s) == RStrip(LStrip(s))

EndsWith(s, suf) ==
    /\ Len(s) >= Len(suf)
    /\ SubSeq(s, Len(s) - Len(suf) + 1, Len(s)) = suf

StartsWith(s, pre) ==
    /\ Len(s) >= Len(pre)
    /\ SubSeq(s, 1, Len(pre)) = pre

sUSDT == <<"U","S","D","T">>
sPERP == <<"P","E","R","P">>
sLONG == <<"L","O","N","G">>
sBUY == <<"B","U","Y">>
sSHORT == <<"S","H","O","R","T">>
sSELL == <<"S","E","L","L">>
sEmpty == <<>>

\* re.sub(r'[-_]', '', s)
RECURSIVE RemoveSeparators(_)
RemoveSeparators(s) ==
    IF s = <<>> THEN <<>>
    ELSE IF Head(s) \in {"-", "_"} THEN RemoveSeparators(Tail(s))
    ELSE <<Head(s)>> \o RemoveSeparators(Tail(s))

\* str.replace(old, ''): the non-overlapping occurrences, left to right
RECURSIVE RemoveAll(_, _)
RemoveAll(s, old) ==
    IF Len(s) < Len(old) THEN s
    ELSE IF StartsWith(s, old)
         THEN RemoveAll(SubSeq(s, Len(old) + 1, Len(s)), old)
         ELSE <<Head(s)>> \o RemoveAll(Tail(s), old)

normalize_symbol(s) == RemoveAll(RemoveSeparators(Upper(s)), sPERP)

\* the -PERP spelling built on the root instead of the base
VariantList_perp_on_root(base, root) ==
    << base,
       root \o <<"_">> \o sUSDT,
       root \o <<"-">> \o sUSDT,
       root \o <<"-">> \o sPERP >>

VariantList(base, root) ==
    << base,
       root \o <<"_">> \o sUSDT,
       root \o <<"-">> \o sUSDT,
       base \o <<"-">> \o sPERP >>

Variants(up) ==
    IF EndsWith(up, sUSDT)
    THEN VariantList(up, SubSeq(up, 1, Len(up) - 4))
    ELSE VariantList(up \o sUSDT, up)

symbol_variants(base) == Variants(Upper(base))

(***************************************************************************)
(* JSON values, as Python sees them after r.json().                        *)
(*   null, a number, a string, a list of values, an object (dict).         *)
(* A dict is a function from its keys; a missing key is a key outside its  *)
(* DOMAIN.                                                                 *)
(***************************************************************************)
None == [k |-> "null"]
Num(r) == [k |-> "num", v |-> r]
Str(s) == [k |-> "str", s |-> s]
List(e) == [k |-> "list", e |-> e]
Dict(d) == [k |-> "dict", d |-> d]
EmptyDict == Dict(<<>>)

\* dict.get(key): None for a missing key
Get(dct, key) == IF key \in DOMAIN dct.d THEN dct.d[key] ELSE None

\* Python truthiness, as used by `or`, `if x` and `not x`
Truthy(x) ==
    CASE x.k = "null" -> FALSE
      [] x.k = "num" -> x.v.n # 0
      [] x.k = "str" -> x.s # <<>>
      [] x.k = "list" -> x.e # <<>>
      [] x.k = "dict" -> DOMAIN x.d # {}

\* a or b
Or(a, b) == IF Truthy(a) THEN a ELSE b

DigitChars == <<"0","1","2","3","4","5","6","7","8","9">>
IsDigit(c) == \E i \in 1..10 : DigitChars[i] = c
DigitVal(c) == (CHOOSE i \in 1..10 : DigitChars[i] = c) - 1
AllDigits(s) == \A i \in 1..Len(s) : IsDigit(s[i])

RECURSIVE ParseNat(_)
ParseNat(s) ==
    IF s = <<>> THEN 0
    ELSE ParseNat(SubSeq(s, 1, Len(s) - 1)) * 10 + DigitVal(s[Len(s)])

RECURSIVE Pow10(_)
Pow10(k) == IF k = 0 THEN 1 ELSE 10 * Pow10(k - 1)

RECURSIVE StrOfNat(_)
StrOfNat(n) ==
    IF n < 10 THEN <<DigitChars[n + 1]>>
    ELSE StrOfNat(n \div 10) \o <<DigitChars[(n % 10) + 1]>>

\* float(<str>) for plain decimal literals: [sign] digits [. digits]; any
\* other text raises ValueError.  (Exponent, inf and nan spellings are not
\* among the texts the model feeds it.)  ok = FALSE stands for the exception.
NoFloat == [ok |-> FALSE, v |-> Zero]

DotIndex(body) ==
    IF \E i \in 1..Len(body) : body[i] = "."
    THEN CHOOSE i \in 1..Len(body) :
            body[i] = "." /\ \A j \in 1..(i - 1) : body[j] # "."
    ELSE Len(body) + 1

ParseDecimal(ip, fp, neg) ==
    IF AllDigits(ip) /\ AllDigits(fp) /\ Len(ip) + Len(fp) >= 1
    THEN [ok |-> TRUE,
          v |-> R((IF neg THEN -1 ELSE 1) * ParseNat(ip \o fp), Pow10(Len(fp)))]
    ELSE NoFloat

ParseUnsigned(body, dot, neg) ==
    ParseDecimal(SubSeq(body, 1, dot - 1), SubSeq(body, dot + 1, Len(body)), neg)

ParseSigned(s) ==
    IF s # <<>> /\ Head(s) \in {"+", "-"}
    THEN ParseUnsigned(Tail(s), DotIndex(Tail(s)), Head(s) = "-")
    ELSE ParseUnsigned(s, DotIndex(s), FALSE)

ParseFloat(s) == ParseSigned(Strip(s))

\* float(x)
Float(x) ==
    CASE x.k = "num" -> [ok |-> TRUE, v |-> x.v]
      [] x.k = "str" -> ParseFloat(x.s)
      [] OTHER -> NoFloat

\* int(x): truncation of a number, an integer literal of a string
NoInt == [ok |-> FALSE, v |-> 0]

ParseIntBody(body, neg) ==
    IF body # <<>> /\ AllDigits(body)
    THEN [ok |-> TRUE, v |-> IF neg THEN -ParseNat(body) ELSE ParseNat(body)]
    ELSE NoInt

ParseInt(s) ==
    IF s # <<>> /\ Head(s) \in {"+", "-"}
    THEN ParseIntBody(Tail(s), Head(s) = "-")
    ELSE ParseIntBody(s, FALSE)

Trunc(r) == IF r.n >= 0 THEN r.n \div r.d ELSE -((-r.n) \div r.d)

IntOf(x) ==
    CASE x.k = "num" -> [ok |-> TRUE, v |-> Trunc(x.v)]
      [] x.k = "str" -> ParseInt(Strip(x.s))
      [] OTHER -> NoInt

\* str(x) for the values the model gives a position id: a string is
\* itself, an integer is its decimal digits
StrOf(x) ==
    CASE x.k = "str" -> x.s
      [] x.k = "num" ->
            IF x.v.n < 0 THEN <<"-">> \o StrOfNat(-x.v.n) ELSE StrOfNat(x.v.n)

\* str(<float>) for a terminating decimal: its digits with at least one
\* fractional digit, as in "95.0"
RECURSIVE FracDigits(_, _)
FracDigits(r, k) ==
    IF (Abs(r.n) * Pow10(k)) % r.d = 0 THEN k ELSE FracDigits(r, k + 1)

RECURSIVE PadLeft(_, _)
PadLeft(s, width) == IF Len(s) >= width THEN s ELSE PadLeft(<<"0">> \o s, width)

RenderScaled(neg, scaled, k) ==
    (IF neg THEN <<"-">> ELSE <<>>)
        \o StrOfNat(scaled \div Pow10(k)) \o <<".">>
        \o PadLeft(StrOfNat(scaled % Pow10(k)), k)

RenderDecimal(r, k) == RenderScaled(r.n < 0, (Abs(r.n) * Pow10(k)) \div r.d, k)

StrOfFloat(r) == RenderDecimal(r, FracDigits(r, 1))

\* safe_float(*vals): the first value that is not None and that float()
\* accepts, else 0.0
RECURSIVE safe_float(_)
FloatOrNext(f, rest) == IF f.ok THEN f.v ELSE safe_float(rest)

safe_float(vals) ==
    IF vals = <<>> THEN Zero
    ELSE IF Head(vals).k = "null" THEN safe_float(Tail(vals))
    ELSE FloatOrNext(Float(Head(vals)), Tail(vals))

\* extract_position_fields(p), field by field; raised stands for the
\* AttributeError of .upper() on a side value that is not a string
SideValue(p) ==
    Or(Or(Or(Get(p, "side"), Get(p, "positionSide")), Get(p, "posSide")), Str(sEmpty))

Quantity(p) ==
    safe_float(<<Get(p, "qty"), Get(p, "positionSize"), Get(p, "size"),
                 Get(p, "volume"), Get(p, "availableQty")>>)

EntryPrice(p) ==
    safe_float(<<Get(p, "avgOpenPrice"), Get(p, "entryPrice"), Get(p, "avgPrice")>>)

Notional(p, qty, entry) ==
    safe_float(<<Get(p, "positionValue"),
                 IF qty.n # 0 /\ entry.n # 0
                 THEN Num(RMul(RAbs(qty), entry)) ELSE None>>)

\* the id defaulting to "0" instead of ""
PositionId_zero_default(p) ==
    StrOf(Or(Or(Get(p, "positionId"), Get(p, "id")), Str(<<"0">>)))

PositionId(p) == StrOf(Or(Or(Get(p, "positionId"), Get(p, "id")), Str(sEmpty)))

NoFields == [raised |-> FALSE, side |-> sEmpty, qty |-> Zero, entry |-> Zero,
             notional |-> Zero, position_id |-> sEmpty]

Extracted(p, sv, qty, entry) ==
    IF sv.k # "str" THEN [NoFields EXCEPT !.raised = TRUE]
    ELSE [raised |-> FALSE, side |-> Upper(sv.s), qty |-> qty, entry |-> entry,
          notional |-> Notional(p, qty, entry), position_id |-> PositionId(p)]

extract_position_fields(p) == Extracted(p, SideValue(p), Quantity(p), EntryPrice(p))

\* derive_tick_from_symbol_info(info); raised stands for the AttributeError
\* of .get on an info (or a priceFilter) that is not a dict
DefaultTick == R(1, 100)

PriceFilter(info) == Or(Get(info, "priceFilter"), EmptyDict)

TickField(info, pf) ==
    IF Truthy(Get(info, "tickSize")) THEN Get(info, "tickSize") ELSE Get(pf, "tickSize")

ScaleField(info) ==
    Or(Or(Or(Get(info, "quotePrecision"), Get(info, "pricePrecision")),
          Get(info, "priceScale")), Get(info, "quoteScale"))

\* 1 / (10 ** int(scale))
TickFromInt(i) ==
    IF ~i.ok THEN DefaultTick
    ELSE IF i.v >= 0 THEN R(1, Pow10(i.v)) ELSE I(Pow10(-i.v))

TickFromScale(scale) ==
    IF scale.k = "null" THEN DefaultTick ELSE TickFromInt(IntOf(scale))

TickFromFloat(f, info) ==
    [raised |-> FALSE, tick |-> IF f.ok THEN f.v ELSE TickFromScale(ScaleField(info))]

TickFrom(tick, info) ==
    IF Truthy(tick) THEN TickFromFloat(Float(tick), info)
    ELSE [raised |-> FALSE, tick |-> TickFromScale(ScaleField(info))]

DeriveWith(info, pf) ==
    IF ~Truthy(Get(info, "tickSize")) /\ pf.k # "dict"
    THEN [raised |-> TRUE, tick |-> Zero]
    ELSE TickFrom(TickField(info, pf), info)

derive_tick_from_symbol_info(info) ==
    IF info.k # "dict" THEN [raised |-> TRUE, tick |-> Zero]
    ELSE DeriveWith(info, PriceFilter(info))

\* quantize_price with the quotient rounded towards zero (ROUND_DOWN)
quantize_price_round_down(price, tick) ==
    IF tick.n = 0 THEN [raised |-> TRUE, v |-> Zero]
    ELSE [raised |-> FALSE, v |-> RMul(I(Trunc(RDiv(price, tick))), tick)]

\* quantize_price(price, tick): floor(price / tick) * tick in Decimal;
\* raised stands for the decimal exception of a division by a zero tick
quantize_price(price, tick) ==
    IF tick.n = 0 THEN [raised |-> TRUE, v |-> Zero]
    ELSE [raised |-> FALSE, v |-> RMul(I(RFloor(RDiv(price, tick))), tick)]

(***************************************************************************)
(* The exchange gateway.  An HTTP exchange is what the transport gives     *)
(* back: it fails to connect (net), or answers with a status and a body    *)
(* that is JSON (json) or is not (text).                                   *)
(***************************************************************************)
NetError == [net |-> FALSE, status |-> 0, json |-> FALSE, body |-> None]
HttpError(code) == [net |-> TRUE, status |-> code, json |-> FALSE, body |-> None]
NotJson == [net |-> TRUE, status |-> 200, json |-> FALSE, body |-> None]
Json(body) == [net |-> TRUE, status |-> 200, json |-> TRUE, body |-> body]

\* BitunixClient._req: raise_for_status, then r.json() with its fallback
_req(resp) ==
    IF ~resp.net THEN [raised |-> TRUE, data |-> None]
    ELSE IF resp.status >= 400 THEN [raised |-> TRUE, data |-> None]
    ELSE IF resp.json THEN [raised |-> FALSE, data |-> resp.body]
    ELSE [raised |-> FALSE,
          data |-> Dict([code |-> Num(I(resp.status)), raw |-> Str(<<"<">>)])]

\* data.get("data") or data.get("result") or data.get("list") or []
Items(data) ==
    Or(Or(Or(Get(data, "data"), Get(data, "result")), Get(data, "list")), List(<<>>))

FirstItem(items) ==
    IF items.k = "list" /\ items.e # <<>> THEN [raised |-> FALSE, info |-> items.e[1]]
    ELSE IF items.k = "dict" THEN [raised |-> FALSE, info |-> items]
    ELSE [raised |-> TRUE, info |-> None]

TradingPairOf(r) ==
    IF r.raised \/ r.data.k # "dict" THEN [raised |-> TRUE, info |-> None]
    ELSE FirstItem(Items(r.data))

get_trading_pair(resp) == TradingPairOf(_req(resp))

ItemList(items) ==
    [raised |-> FALSE, items |-> IF items.k = "list" THEN items.e ELSE <<>>]

PositionsOf(r) ==
    IF r.raised \/ r.data.k # "dict" THEN [raised |-> TRUE, items |-> <<>>]
    ELSE ItemList(Items(r.data))

get_all_pending_positions(resp) == PositionsOf(_req(resp))

\* cancel_all_orders: the exception of _req propagates
cancel_all_orders(resp) == [raised |-> _req(resp).raised]

\* cancel_all_tpsl: except Exception: return None
cancel_all_tpsl(resp) == [raised |-> FALSE]

\* place_tpsl: the request body it sends, and whether the call raised
place_tpsl(symbol, position_id, sl_price, sl_qty, stop_type, sl_order_type, resp) ==
    [raised |-> _req(resp).raised,
     body |-> [symbol |-> symbol, positionId |-> position_id,
               slPrice |-> StrOfFloat(sl_price),
               slStopType |-> stop_type, slOrderType |-> sl_order_type,
               slQty |-> StrOfFloat(sl_qty)]]

\* find_position_fuzzy: the first record whose normalized symbol is one of
\* the normalized variants; raised for a failed listing, a record that is
\* not a dict, or a symbol value that is not a string
NotFound == [raised |-> FALSE, found |-> FALSE, pos |-> EmptyDict, api_symbol |-> sEmpty]

RECURSIVE FirstMatch(_, _)
\* the first record with a symbol taken, whatever the symbol
MatchApi_any_symbol(p, api_sym, rest, target_norms) ==
    IF api_sym # <<>>
    THEN [raised |-> FALSE, found |-> TRUE, pos |-> p, api_symbol |-> api_sym]
    ELSE FirstMatch(rest, target_norms)

MatchApi(p, api_sym, rest, target_norms) ==
    IF api_sym # <<>> /\ normalize_symbol(api_sym) \in target_norms
    THEN [raised |-> FALSE, found |-> TRUE, pos |-> p, api_symbol |-> api_sym]
    ELSE FirstMatch(rest, target_norms)

MatchSymbol(p, sv, rest, target_norms) ==
    IF sv.k # "str" THEN [NotFound EXCEPT !.raised = TRUE]
    ELSE MatchApi(p, Upper(sv.s), rest, target_norms)

MatchRecord(p, rest, target_norms) ==
    IF p.k # "dict" THEN [NotFound EXCEPT !.raised = TRUE]
    ELSE MatchSymbol(p, Or(Or(Get(p, "symbol"), Get(p, "tradingPair")), Str(sEmpty)),
                     rest, target_norms)

FirstMatch(all_pos, target_norms) ==
    IF all_pos = <<>> THEN NotFound
    ELSE MatchRecord(Head(all_pos), Tail(all_pos), target_norms)

TargetNorms(vs) == {normalize_symbol(vs[i]) : i \in 1..Len(vs)}

FindIn(all_pos, target_norms) ==
    IF all_pos.raised THEN [NotFound EXCEPT !.raised = TRUE]
    ELSE FirstMatch(all_pos.items, target_norms)

find_position_fuzzy(resp, user_symbol) ==
    FindIn(get_all_pending_positions(resp), TargetNorms(symbol_variants(user_symbol)))

\* prompt_inputs(): ok = FALSE stands for the (None, None) it returns
PromptResult(tick, budget) ==
    IF tick = <<>> \/ ~budget.ok
    THEN [ok |-> FALSE, symbol |-> sEmpty, max_loss_usdt |-> Zero]
    ELSE [ok |-> TRUE,
          symbol |-> IF EndsWith(tick, sUSDT) THEN tick ELSE tick \o sUSDT,
          max_loss_usdt |-> budget.v]

prompt_inputs(rawSymbol, rawBudget) ==
    PromptResult(Upper(Strip(rawSymbol)), ParseFloat(Strip(rawBudget)))

(***************************************************************************)
(* main(): the stop computation                                            *)
(***************************************************************************)
EpsDen == 1000000000

\* the comparison of line 247 dropped: every tick counts as a change
NotionalChanged_always(notional, ref) == TRUE

\* abs() dropped from line 247: only a grown notional counts as a change
NotionalChanged_growth_only(notional, ref) ==
    LET diff == RSub(notional, ref)
    IN  diff.n > 0 /\ EpsDen > diff.d \div diff.n

\* abs(notional - notional_ref) > 1e-9
NotionalChanged(notional, ref) ==
    LET diff == RAbs(RSub(notional, ref))
    IN  diff.n > 0 /\ EpsDen > diff.d \div diff.n

\* (not pos) or qty == 0 or entry <= 0 or notional <= 0 or not position_id
Closed(found, qty, entry, notional, position_id) ==
    \/ ~found
    \/ qty.n = 0
    \/ entry.n <= 0
    \/ notional.n <= 0
    \/ position_id = <<>>

Pct(max_loss, notional) == RDiv(RMul(max_loss, I(100)), notional)
Delta(entry, pct) == RMul(entry, RDiv(pct, I(100)))
\* the delta added for SHORT and SELL only, subtracted for every other side
StopPrice_adds_for_short_only(side, entry, delta) ==
    IF side \in {sSHORT, sSELL} THEN RAdd(entry, delta) ELSE RSub(entry, delta)

\* the stop with the two sides exchanged
StopPrice_sides_exchanged(side, entry, delta) ==
    IF side \in {sLONG, sBUY} THEN RAdd(entry, delta) ELSE RSub(entry, delta)

StopPrice(side, entry, delta) ==
    IF side \in {sLONG, sBUY} THEN RSub(entry, delta) ELSE RAdd(entry, delta)

\* stop_price < 0: a stop of exactly zero goes on to be placed
StopNotPositive_strict(stop) == stop.n < 0

\* stop_price <= 0
StopNotPositive(stop) == stop.n <= 0

\* api_symbol or symbol
ApiOr(api_symbol, user_symbol) == IF api_symbol # <<>> THEN api_symbol ELSE user_symbol

(***************************************************************************)
(* What the exchange and the user may answer                               *)
(***************************************************************************)
MaxPositions == 1

sBTCUSDT == <<"B","T","C","U","S","D","T">>
sETHUSDT == <<"E","T","H","U","S","D","T">>
s_btc_usdt == <<"b","t","c","_","u","s","d","t">>
sBTCPerp == <<"B","T","C","U","S","D","T","-","P","E","R","P">>
sId1 == <<"p","1">>

\* Scenario A: entry 100, LONG, notional 1000
PosLong ==
    Dict([symbol |-> Str(sBTCUSDT), side |-> Str(sLONG), qty |-> Str(<<"1","0">>),
          avgOpenPrice |-> Str(<<"1","0","0">>),
          positionValue |-> Str(<<"1","0","0","0">>), positionId |-> Str(sId1)])
\* Scenario B: the same position held short, in another spelling of the record
PosShort ==
    Dict([tradingPair |-> Str(s_btc_usdt), positionSide |-> Str(<<"s","h","o","r","t">>),
          positionSize |-> Num(I(-10)), entryPrice |-> Num(I(100)), id |-> Num(I(7))])
\* the long position after a partial fill: notional 300
PosPartial ==
    Dict([symbol |-> Str(sBTCPerp), side |-> Str(sBUY), qty |-> Str(<<"3">>),
          avgOpenPrice |-> Str(<<"1","0","0">>),
          positionValue |-> Str(<<"3","0","0">>), positionId |-> Str(sId1)])
\* Scenario C: entry 10, notional 10
PosSmall ==
    Dict([symbol |-> Str(sBTCUSDT), side |-> Str(sLONG), qty |-> Str(<<"1">>),
          avgOpenPrice |-> Str(<<"1","0">>), positionValue |-> Str(<<"1","0">>),
          positionId |-> Str(sId1)])
\* Scenario D: qty = 0, every other field well-formed
PosFlat ==
    Dict([symbol |-> Str(sBTCUSDT), side |-> Str(sLONG), qty |-> Str(<<"0">>),
          avgOpenPrice |-> Str(<<"1","0","0">>),
          positionValue |-> Str(<<"1","0","0","0">>), positionId |-> Str(sId1)])
\* a position with no id
PosNoId ==
    Dict([symbol |-> Str(sBTCUSDT), side |-> Str(sLONG), qty |-> Str(<<"1","0">>),
          avgOpenPrice |-> Str(<<"1","0","0">>),
          positionValue |-> Str(<<"1","0","0","0">>)])
\* a position of another symbol, side not given
PosEth ==
    Dict([symbol |-> Str(sETHUSDT), qty |-> Str(<<"2">>),
          avgOpenPrice |-> Str(<<"5","0">>), positionValue |-> Str(<<"1","0","0">>),
          positionId |-> Str(<<"e","1">>)])

\* a position whose side is none of the four known words
PosHedge ==
    Dict([symbol |-> Str(sETHUSDT), side |-> Str(<<"b","o","t","h">>),
          qty |-> Str(<<"2">>), avgOpenPrice |-> Str(<<"5","0">>),
          positionValue |-> Str(<<"2","0","0">>), positionId |-> Str(<<"e","2">>)])

PosRecords ==
    {PosLong, PosShort, PosPartial, PosSmall, PosFlat, PosNoId, PosEth, PosHedge}

RECURSIVE SeqsUpTo(_, _)
SeqsUpTo(S, n) ==
    IF n = 0 THEN {<<>>}
    ELSE LET shorter == SeqsUpTo(S, n - 1)
         IN  shorter \cup {Append(q, x) : q \in shorter, x \in S}

OkBody == Dict([code |-> Num(Zero), msg |-> Str(<<"o","k">>)])

ListResponses ==
    {NetError, HttpError(500), NotJson, Json(Dict([code |-> Num(I(2)), data |-> None]))}
    \cup {Json(Dict([code |-> Num(Zero), data |-> List(q)])) :
            q \in SeqsUpTo(PosRecords, MaxPositions)}

InfoOf(info) == Json(Dict([code |-> Num(Zero), data |-> List(<<info>>)]))

InfoResponses ==
    { HttpError(500), NotJson,
      Json(Dict([code |-> Num(Zero), data |-> List(<<>>)])),
      InfoOf(Dict([tickSize |-> Str(<<"0",".","1">>)])),
      InfoOf(Dict([tickSize |-> Num(I(1))])),
      InfoOf(Dict([tickSize |-> Str(<<"0">>)])),
      InfoOf(Dict([quotePrecision |-> Num(Zero), pricePrecision |-> Num(I(1))])),
      Json(Dict([data |-> Dict([priceFilter |->
                                  Dict([tickSize |-> Str(<<"0",".","5">>)])])])),
      InfoOf(Dict([symbol |-> Str(sBTCUSDT)])) }

CallResponses == {HttpError(400), NotJson, Json(OkBody)}

RawSymbols == {<<"b","t","c">>, <<" ","E","T","H","U","S","D","T">>, <<>>}
RawBudgets == {<<"5","0">>, <<"2","0","0">>, <<"9",".","5">>, <<"1","0">>, <<"a","l","l">>}

(***************************************************************************)
(* main(): the reconciliation loop.                                        *)
(*   pc            "loop" while the while-loop runs; "error" after the     *)
(*                 except Exception handler; "interrupted" after the       *)
(*                 except KeyboardInterrupt handler                        *)
(*   estado        FALSE = WATCHING, TRUE = MANAGING                       *)
(*   notional_ref  lastNotionalSeen                                        *)
(*   last          what the last iteration saw and which calls it made     *)
(***************************************************************************)
VARIABLES pc, estado, notional_ref, symbol, max_loss_usdt, last, fn

vars == <<pc, estado, notional_ref, symbol, max_loss_usdt, last, fn>>

Idle == [f |-> "none"]

RespKind(resp) ==
    IF ~resp.net THEN "net"
    ELSE IF resp.status >= 400 THEN "http"
    ELSE IF resp.json THEN "json" ELSE "notjson"

NoBody == [symbol |-> sEmpty, positionId |-> sEmpty, slPrice |-> sEmpty,
           slStopType |-> "", slOrderType |-> "", slQty |-> sEmpty]

Call(op, sym, kind, raised, body) ==
    [op |-> op, symbol |-> sym, resp |-> kind, raised |-> raised, body |-> body]

\* lines 223-226 and 259-261: find the position and extract its fields
Observed(kind, f, x) ==
    [resp |-> kind, raised |-> f.raised \/ x.raised, found |-> f.found,
     api_symbol |-> f.api_symbol, side |-> x.side, qty |-> x.qty,
     entry |-> x.entry, notional |-> x.notional, position_id |-> x.position_id]

ObserveFound(kind, f) ==
    IF f.found THEN Observed(kind, f, extract_position_fields(f.pos))
    ELSE Observed(kind, f, NoFields)

Observe(resp, user_symbol) ==
    ObserveFound(RespKind(resp), find_position_fuzzy(resp, user_symbol))

\* the (symbol, budget) pairs the prompt loop of lines 215-219 and 232-236
\* can leave with: it repeats until prompt_inputs returns a valid pair
Prompted ==
    {p \in {prompt_inputs(rs, rb) : rs \in RawSymbols, rb \in RawBudgets} : p.ok}

\* the distinct outcomes of one poll of the position list, per user symbol
ObservationTable ==
    [s \in {p.symbol : p \in Prompted} |-> {Observe(resp, s) : resp \in ListResponses}]

Observations(user_symbol) == ObservationTable[user_symbol]

\* the distinct outcomes of fetching the instrument and deriving its tick
InfoDerived(kind, g, d) ==
    [resp |-> kind, call_raised |-> g.raised, raised |-> g.raised \/ d.raised,
     tick |-> d.tick]

InfoFetched(kind, g) ==
    IF g.raised THEN InfoDerived(kind, g, [raised |-> FALSE, tick |-> Zero])
    ELSE InfoDerived(kind, g, derive_tick_from_symbol_info(g.info))

InfoOutcome(ri) == InfoFetched(RespKind(ri), get_trading_pair(ri))

InfoOutcomes == {InfoOutcome(ri) : ri \in InfoResponses}

Mode == IF estado THEN "MANAGING" ELSE "WATCHING"

Tick(path, o, stop, tick, stop_q, calls, prompted) ==
    [mode |-> Mode, path |-> path, found |-> o.found, api_symbol |-> o.api_symbol,
     side |-> o.side, qty |-> o.qty, entry |-> o.entry, notional |-> o.notional,
     position_id |-> o.position_id, stop_price |-> stop, tick |-> tick,
     stop_q |-> stop_q, ref_before |-> notional_ref, symbol_before |-> symbol,
     budget_before |-> max_loss_usdt, calls |-> calls, prompted |-> prompted,
     prev |-> [path |-> last.path, notional |-> last.notional]]

NoObs == [resp |-> "net", raised |-> FALSE, found |-> FALSE, api_symbol |-> sEmpty, side |-> sEmpty,
          qty |-> Zero, entry |-> Zero, notional |-> Zero, position_id |-> sEmpty]

\* lines 209-219: the state after the first valid prompt
Init ==
    /\ pc = "loop"
    /\ estado = FALSE
    /\ notional_ref = Zero
    /\ \E p \in Prompted :
          /\ symbol = p.symbol
          /\ max_loss_usdt = p.max_loss_usdt
    /\ last = [mode |-> "START", path |-> "start", found |-> FALSE,
               api_symbol |-> sEmpty, side |-> sEmpty, qty |-> Zero, entry |-> Zero,
               notional |-> Zero, position_id |-> sEmpty, stop_price |-> Zero,
               tick |-> Zero, stop_q |-> Zero, ref_before |-> Zero,
               symbol_before |-> sEmpty, budget_before |-> Zero, calls |-> <<>>,
               prompted |-> TRUE, prev |-> [path |-> "none", notional |-> Zero]]
    /\ fn = Idle

\* either mode: listing the positions (or reading the matched record) raises;
\* the exception leaves the while loop for the handler of line 270
ListFails ==
    /\ pc = "loop"
    /\ \E o \in Observations(symbol) :
              /\ o.raised
              /\ last' = Tick("error", NoObs, Zero, Zero, Zero,
                              <<Call("list", sEmpty, o.resp, TRUE, NoBody)>>, FALSE)
    /\ pc' = "error"
    /\ UNCHANGED <<estado, notional_ref, symbol, max_loss_usdt, fn>>

\* lines 227-237: the position is closed or not valid
ManagingClosed ==
    /\ pc = "loop" /\ estado
    /\ \E o \in Observations(symbol) :
          LET target == ApiOr(o.api_symbol, symbol)
          IN  /\ ~o.raised
              /\ Closed(o.found, o.qty, o.entry, o.notional, o.position_id)
              /\ \E r1 \in CallResponses, r2 \in CallResponses :
                    LET c1 == cancel_all_tpsl(r1)
                        c2 == cancel_all_orders(r2)
                        calls == <<Call("list", sEmpty, o.resp, FALSE, NoBody),
                                   Call("cancel_all_tpsl", target, RespKind(r1), c1.raised, NoBody),
                                   Call("cancel_all_orders", target, RespKind(r2), c2.raised, NoBody)>>
                    IN  IF c2.raised
                        THEN /\ pc' = "error"
                             /\ last' = Tick("error", o, Zero, Zero, Zero, calls, FALSE)
                             /\ UNCHANGED <<estado, notional_ref, symbol, max_loss_usdt>>
                        ELSE /\ pc' = "loop"
                             /\ estado' = FALSE
                             /\ notional_ref' = Zero
                             /\ \E p \in Prompted :
                                   /\ symbol' = p.symbol
                                   /\ max_loss_usdt' = p.max_loss_usdt
                             /\ last' = Tick("closed", o, Zero, Zero, Zero, calls, TRUE)
    /\ UNCHANGED fn

\* lines 238-243: the computed stop is not positive
ManagingSkip ==
    /\ pc = "loop" /\ estado
    /\ \E o \in Observations(symbol) :
          LET stop == StopPrice(o.side, o.entry,
                                Delta(o.entry, Pct(max_loss_usdt, o.notional)))
          IN  /\ ~o.raised
              /\ ~Closed(o.found, o.qty, o.entry, o.notional, o.position_id)
              /\ StopNotPositive(stop)
              /\ last' = Tick("skip", o, stop, Zero, Zero,
                              <<Call("list", sEmpty, o.resp, FALSE, NoBody)>>, FALSE)
    /\ UNCHANGED <<pc, estado, notional_ref, symbol, max_loss_usdt, fn>>

\* lines 244-257: fetch the instrument, quantize, and place the stop when the
\* notional moved
ManagingStop ==
    /\ pc = "loop" /\ estado
    /\ \E o \in Observations(symbol) :
          LET stop == StopPrice(o.side, o.entry,
                                Delta(o.entry, Pct(max_loss_usdt, o.notional)))
              target == ApiOr(o.api_symbol, symbol)
              c0 == Call("list", sEmpty, o.resp, FALSE, NoBody)
          IN  /\ ~o.raised
              /\ ~Closed(o.found, o.qty, o.entry, o.notional, o.position_id)
              /\ ~StopNotPositive(stop)
              /\ \E d \in InfoOutcomes :
                    LET q == IF d.raised THEN [raised |-> TRUE, v |-> Zero]
                             ELSE quantize_price(stop, d.tick)
                        c1 == Call("get_trading_pair", target, d.resp, d.call_raised,
                                   NoBody)
                    IN  IF q.raised
                        THEN /\ pc' = "error"
                             /\ last' = Tick("error", o, stop, Zero, Zero, <<c0, c1>>, FALSE)
                             /\ UNCHANGED notional_ref
                        ELSE IF ~NotionalChanged(o.notional, notional_ref)
                        THEN /\ pc' = "loop"
                             /\ last' = Tick("unchanged", o, stop, d.tick, q.v,
                                             <<c0, c1>>, FALSE)
                             /\ UNCHANGED notional_ref
                        ELSE \E rp \in CallResponses :
                               LET pl == place_tpsl(target, o.position_id, q.v, RAbs(o.qty),
                                                    "LAST_PRICE", "MARKET", rp)
                                   c2 == Call("place_tpsl", target, RespKind(rp), pl.raised, pl.body)
                               IN  IF pl.raised
                                   THEN /\ pc' = "error"
                                        /\ last' = Tick("error", o, stop, d.tick, q.v,
                                                        <<c0, c1, c2>>, FALSE)
                                        /\ UNCHANGED notional_ref
                                   ELSE /\ pc' = "loop"
                                        /\ last' = Tick("placed", o, stop, d.tick, q.v,
                                                        <<c0, c1, c2>>, FALSE)
                                        /\ notional_ref' = o.notional
    /\ UNCHANGED <<estado, symbol, max_loss_usdt, fn>>

\* the transition taken for any matched record, the `if qty != 0' dropped
WatchingDetect_any_quantity ==
    /\ pc = "loop" /\ ~estado
    /\ \E o \in Observations(symbol) :
              /\ ~o.raised
              /\ o.found
              /\ last' = Tick("detected", o, Zero, Zero, Zero,
                              <<Call("list", sEmpty, o.resp, FALSE, NoBody)>>, FALSE)
    /\ estado' = TRUE
    /\ notional_ref' = Zero
    /\ UNCHANGED <<pc, symbol, max_loss_usdt, fn>>

\* the transition remembering the notional it saw instead of the sentinel
WatchingDetect_keeps_notional ==
    /\ pc = "loop" /\ ~estado
    /\ \E o \in Observations(symbol) :
              /\ ~o.raised
              /\ o.found /\ o.qty.n # 0
              /\ last' = Tick("detected", o, Zero, Zero, Zero,
                              <<Call("list", sEmpty, o.resp, FALSE, NoBody)>>, FALSE)
              /\ notional_ref' = o.notional
    /\ estado' = TRUE
    /\ UNCHANGED <<pc, symbol, max_loss_usdt, fn>>

\* lines 259-265: a position with a quantity is there; start managing
WatchingDetect ==
    /\ pc = "loop" /\ ~estado
    /\ \E o \in Observations(symbol) :
              /\ ~o.raised
              /\ o.found /\ o.qty.n # 0
              /\ last' = Tick("detected", o, Zero, Zero, Zero,
                              <<Call("list", sEmpty, o.resp, FALSE, NoBody)>>, FALSE)
    /\ estado' = TRUE
    /\ notional_ref' = Zero
    /\ UNCHANGED <<pc, symbol, max_loss_usdt, fn>>

\* lines 266-267: nothing to manage; sleep POLL_SECONDS and poll again
WatchingWait ==
    /\ pc = "loop" /\ ~estado
    /\ \E o \in Observations(symbol) :
              /\ ~o.raised
              /\ ~(o.found /\ o.qty.n # 0)
              /\ last' = Tick("wait", o, Zero, Zero, Zero,
                              <<Call("list", sEmpty, o.resp, FALSE, NoBody)>>, FALSE)
    /\ UNCHANGED <<pc, estado, notional_ref, symbol, max_loss_usdt, fn>>

\* line 268: Ctrl+C
Interrupt ==
    /\ pc = "loop"
    /\ pc' = "interrupted"
    /\ UNCHANGED <<estado, notional_ref, symbol, max_loss_usdt, last, fn>>

Next ==
    \/ ListFails
    \/ ManagingClosed
    \/ ManagingSkip
    \/ ManagingStop
    \/ WatchingDetect
    \/ WatchingWait
    \/ Interrupt

Spec == Init /\ [][Next]_vars

(***************************************************************************)
(* quantize_price on its own: a price and a tick are drawn, the function   *)
(* is applied once.                                                        *)
(***************************************************************************)
MaxPriceNum == 12
MaxTickNum == 4

PriceDens == {1, 2, 4, 10}
TickDens == {1, 2, 10, 100}

Prices == {R(n, d) : n \in (-MaxPriceNum)..MaxPriceNum, d \in PriceDens}
Ticks == {R(n, d) : n \in 0..MaxTickNum, d \in TickDens}

InitQuantize ==
    /\ pc = "fn"
    /\ estado = FALSE
    /\ notional_ref = Zero
    /\ symbol = sEmpty
    /\ max_loss_usdt = Zero
    /\ last = [path |-> "none"]
    /\ \E price \in Prices, tick \in Ticks :
          fn = [f |-> "args", price |-> price, tick |-> tick]

ApplyQuantize ==
    /\ fn.f = "args"
    /\ \E q \in {quantize_price(fn.price, fn.tick)} :
          fn' = [f |-> "quantize_price", price |-> fn.price, tick |-> fn.tick,
                 raised |-> q.raised, out |-> q.v]
    /\ UNCHANGED <<pc, estado, notional_ref, symbol, max_loss_usdt, last>>

NextQuantize == ApplyQuantize

SpecQuantize == InitQuantize /\ [][NextQuantize]_vars

(***************************************************************************)
(* Properties.  `last' is the record of the iteration that has just run:   *)
(* what it observed, the calls it made in order, and the values the        *)
(* variables had when it started.                                          *)
(***************************************************************************)
PlacementIssued == \E i \in 1..Len(last.calls) : last.calls[i].op = "place_tpsl"

PlacementSucceeded ==
    \E i \in 1..Len(last.calls) :
        last.calls[i].op = "place_tpsl" /\ ~last.calls[i].raised

CancelIssued ==
    \E i \in 1..Len(last.calls) :
        last.calls[i].op \in {"cancel_all_tpsl", "cancel_all_orders"}

\* a MANAGING iteration whose position listing came back without an exception
Listed == last.mode = "MANAGING" /\ ~last.calls[1].raised

\* no matching position, or quantity = 0, or entryPrice <= 0, or
\* notional <= 0, or an empty positionId
NotActionable ==
    \/ ~last.found
    \/ last.qty = Zero
    \/ RLeq(last.entry, Zero)
    \/ RLeq(last.notional, Zero)
    \/ last.position_id = sEmpty

\* |a - b| > 1e-9
BeyondEps(a, b) ==
    LET diff == RAbs(RSub(a, b))
    IN  diff.n > 0 /\ diff.d \div diff.n < EpsDen

\* the placement call of the iteration carries the iteration's values
PlacementCarries ==
    /\ Len(last.calls) = 3
    /\ last.calls[3].op = "place_tpsl"
    /\ last.calls[3].symbol = ApiOr(last.api_symbol, last.symbol_before)
    /\ last.calls[3].body.symbol = ApiOr(last.api_symbol, last.symbol_before)
    /\ last.calls[3].body.positionId = last.position_id
    /\ last.stop_q = quantize_price(last.stop_price, last.tick).v
    /\ last.calls[3].body.slPrice = StrOfFloat(last.stop_q)
    /\ last.calls[3].body.slQty = StrOfFloat(RAbs(last.qty))
    /\ last.calls[3].body.slStopType = "LAST_PRICE"
    /\ last.calls[3].body.slOrderType = "MARKET"

\* lastNotionalSeen follows a successful placement and nothing else
RefFollowsPlacement ==
    IF PlacementSucceeded THEN notional_ref = last.notional
    ELSE notional_ref = last.ref_before

\* C1: a failure of any single exchange call is caught for that iteration
\* and the loop goes on polling; the process stops only on a user interrupt.
LoopSurvivesCallFailures == pc \in {"loop", "interrupted"}

\* C2: during the position-closed cleanup a failure of either cancel call is
\* swallowed: whatever the two cancel calls answer, the state is reset, the
\* mode becomes WATCHING and the user is prompted again.
CancelFailuresSwallowed ==
    (last.mode = "MANAGING" /\ CancelIssued)
        => /\ Len(last.calls) = 3
           /\ ~estado
           /\ notional_ref = Zero
           /\ last.prompted

\* C3: a MANAGING iteration issues a placement only if
\* |notional - lastNotionalSeen| > 1e-9; and when the iteration before placed
\* the stop and the actionable position's notional is the same, this
\* iteration issues no placement.
IdempotentReissue ==
    /\ (Listed /\ PlacementIssued) => BeyondEps(last.notional, last.ref_before)
    /\ (Listed /\ ~NotActionable /\ last.prev.path = "placed"
               /\ last.notional = last.prev.notional) => ~PlacementIssued

IdempotentReissueSeen ==
    /\ Listed /\ ~NotActionable
    /\ last.prev.path = "placed" /\ last.notional = last.prev.notional
    /\ last.path = "unchanged"
    /\ Len(last.calls) = 2

CleanupOnClosedPosition ==
    (Listed /\ NotActionable)
        => /\ Len(last.calls) = 3
           /\ last.calls[2].op = "cancel_all_tpsl"
           /\ last.calls[3].op = "cancel_all_orders"
           /\ ~PlacementIssued
           /\ ~estado
           /\ notional_ref = Zero
           /\ last.prompted

\* C7: in a MANAGING iteration with an actionable position whose computed
\* stop is <= 0, no placement and no cancel call is made, the mode stays
\* MANAGING, and lastNotionalSeen, symbol and budget are left as they were.
NonPositiveStopSkipped ==
    (Listed /\ ~NotActionable /\ RLeq(last.stop_price, Zero))
        => /\ Len(last.calls) = 1
           /\ ~PlacementIssued /\ ~CancelIssued
           /\ estado
           /\ notional_ref = last.ref_before
           /\ symbol = last.symbol_before
           /\ max_loss_usdt = last.budget_before

\* entry 10, notional 10, budget 50: the stop is -40
NonPositiveStopSeen ==
    /\ Listed /\ last.path = "skip"
    /\ last.entry = I(10) /\ last.notional = I(10) /\ last.budget_before = I(50)
    /\ last.stop_price = I(-40)

\* C8: a non-success HTTP status or a body that is not JSON is a failure of
\* the call (the TP/SL cancel apart, which swallows its failures); a listing
\* that is not JSON never counts as 'no open position' and never starts the
\* cancel/reset cleanup.
BadResponsesAreFailures ==
    /\ \A i \in 1..Len(last.calls) :
          (last.calls[i].resp \in {"http", "notjson"}
              /\ last.calls[i].op # "cancel_all_tpsl") => last.calls[i].raised
    /\ (last.mode = "MANAGING" /\ last.calls[1].resp = "notjson") => ~CancelIssued

\* entry -/+ entry * budget / notional
ClosedFormStop(side, entry, budget, notional) ==
    IF side \in {sLONG, sBUY}
    THEN RSub(entry, RDiv(RMul(entry, budget), notional))
    ELSE RAdd(entry, RDiv(RMul(entry, budget), notional))

\* C9: for an actionable position the stop before quantization is
\* entry - entry*budget/notional on the long side and
\* entry + entry*budget/notional on the short side; entry 100, notional 1000:
\* LONG with budget 50 gives 95 (95.0 at tick 0.1), SHORT with budget 200
\* gives 120 (120 at tick 1).
StopClosedForm ==
    (Listed /\ ~NotActionable /\ last.side \in {sLONG, sBUY, sSHORT, sSELL})
        => /\ last.stop_price =
                  ClosedFormStop(last.side, last.entry, last.budget_before, last.notional)
           /\ (last.entry = I(100) /\ last.notional = I(1000)
                  /\ last.side = sLONG /\ last.budget_before = I(50))
                 => /\ last.stop_price = I(95)
                    /\ last.tick = R(1, 10) => last.stop_q = I(95)
                    /\ (last.tick = R(1, 10) /\ PlacementIssued)
                          => last.calls[3].body.slPrice = <<"9", "5", ".", "0">>
           /\ (last.entry = I(100) /\ last.notional = I(1000)
                  /\ last.side = sSHORT /\ last.budget_before = I(200))
                 => /\ last.stop_price = I(120)
                    /\ last.tick = I(1) => last.stop_q = I(120)

\* SHORT, entry 100, notional 1000, budget 200, tick 1: 120 is placed
StopClosedFormSeen ==
    /\ last.path = "placed" /\ last.side = sSHORT
    /\ last.entry = I(100) /\ last.notional = I(1000) /\ last.budget_before = I(200)
    /\ last.tick = I(1)
    /\ last.stop_q = I(120)
    /\ last.calls[3].body.slPrice = <<"1", "2", "0", ".", "0">>

\* C10: for every tick t > 0 and price p, quantize_price(p, t) <= p, it is
\* an integer multiple of t, and it is the largest one:
\* p - quantize_price(p, t) < t.
QuantizeIsFloorMultiple ==
    (fn.f = "quantize_price" /\ fn.tick.n > 0)
        => /\ ~fn.raised
           /\ RLeq(fn.out, fn.price)
           /\ RDiv(fn.out, fn.tick).d = 1
           /\ RLt(RSub(fn.price, fn.out), fn.tick)

\* -0.7 at tick 0.5 goes down to -1.0
QuantizeIsFloorMultipleSeen ==
    /\ fn.f = "quantize_price"
    /\ fn.price = R(-7, 10) /\ fn.tick = R(1, 2)
    /\ ~fn.raised /\ fn.out = I(-1)

(***************************************************************************)
(* normalize_symbol and symbol_variants on their own: a text is drawn,     *)
(* one of the two functions is applied once.  The texts are made of up to  *)
(* MaxWords pieces, so that a PERP can stand inside the halves of another. *)
(***************************************************************************)
MaxWords == 3

Words ==
    { <<"P","E">>, <<"R","P">>, sPERP, <<"-">>, <<"_">>, <<"b">>, sUSDT,
      <<"B","T","C">> }

RECURSIVE Concat(_)
Concat(ws) == IF ws = <<>> THEN <<>> ELSE Head(ws) \o Concat(Tail(ws))

Texts == {Concat(ws) : ws \in SeqsUpTo(Words, MaxWords)}

InitSymbols ==
    /\ pc = "fn"
    /\ estado = FALSE
    /\ notional_ref = Zero
    /\ symbol = sEmpty
    /\ max_loss_usdt = Zero
    /\ last = [path |-> "none"]
    /\ \E s \in Texts : fn = [f |-> "text", s |-> s]

ApplyNormalize ==
    /\ fn.f = "text"
    /\ \E out \in {normalize_symbol(fn.s)} :
          fn' = [f |-> "normalize_symbol", s |-> fn.s, out |-> out,
                 again |-> normalize_symbol(out)]
    /\ UNCHANGED <<pc, estado, notional_ref, symbol, max_loss_usdt, last>>

ApplyVariants ==
    /\ fn.f = "text"
    /\ \E out \in {symbol_variants(fn.s)} :
          fn' = [f |-> "symbol_variants", s |-> fn.s, out |-> out,
                 norms |-> [i \in 1..Len(out) |-> normalize_symbol(out[i])]]
    /\ UNCHANGED <<pc, estado, notional_ref, symbol, max_loss_usdt, last>>

NextSymbols ==
    \/ ApplyNormalize
    \/ ApplyVariants

SpecSymbols == InitSymbols /\ [][NextSymbols]_vars

\* C11: floor quantization is conservative for both sides: the quantized
\* stop that is placed is never further from the entry price than the stop
\* before quantization, |entry - quantized| <= |entry - stop|.
QuantizedStopNoFurther ==
    (Listed /\ PlacementIssued)
        => RLeq(RAbs(RSub(last.entry, last.stop_q)),
                RAbs(RSub(last.entry, last.stop_price)))

\* C12: normalize_symbol is idempotent:
\* normalize_symbol(normalize_symbol(s)) = normalize_symbol(s) for every s.
NormalizeIdempotent == fn.f = "normalize_symbol" => fn.again = fn.out

(***************************************************************************)
(* extract_position_fields on its own: a record is drawn field by field    *)
(* (each field missing, null, a string, a number or a malformed value),    *)
(* the function is applied once and line 227 is evaluated on its result.   *)
(***************************************************************************)
Absent == [k |-> "absent"]

FieldNames == {"side", "qty", "avgOpenPrice", "positionValue", "positionId", "id"}

FieldChoices ==
    [ side : {Absent, None, Str(sEmpty), Str(<<"l","o","n","g">>), Num(I(1))},
      qty : {Absent, None, Str(<<"1","0">>), Num(I(-10)), Str(<<"a","b","c">>)},
      avgOpenPrice : {Absent, Str(<<"1","0","0">>), Num(Zero), Str(<<"x">>)},
      positionValue : {Absent, None, Str(<<"1","0","0","0">>), Str(<<"x">>)},
      positionId : {Absent, None, Str(sEmpty), Str(sId1)},
      id : {Absent, Num(I(7)), Str(<<"e","1">>)} ]

RecordOf(c) == Dict([k \in {f \in FieldNames : c[f] # Absent} |-> c[k]])

InitExtract ==
    /\ pc = "fn"
    /\ estado = FALSE
    /\ notional_ref = Zero
    /\ symbol = sEmpty
    /\ max_loss_usdt = Zero
    /\ last = [path |-> "none"]
    /\ \E c \in FieldChoices : fn = [f |-> "record", p |-> RecordOf(c)]

ApplyExtract ==
    /\ fn.f = "record"
    /\ \E x \in {extract_position_fields(fn.p)} :
          fn' = [f |-> "extract_position_fields", p |-> fn.p, raised |-> x.raised,
                 side |-> x.side, qty |-> x.qty, entry |-> x.entry,
                 notional |-> x.notional, position_id |-> x.position_id,
                 closed |-> Closed(Truthy(fn.p), x.qty, x.entry, x.notional,
                                   x.position_id)]
    /\ UNCHANGED <<pc, estado, notional_ref, symbol, max_loss_usdt, last>>

NextExtract == ApplyExtract

SpecExtract == InitExtract /\ [][NextExtract]_vars

\* C13, as stated: extract on a record with no positionId field yields an
\* empty position id, hence a position that is not actionable, whatever the
\* other fields (an id field included).
NoPositionIdNotActionable ==
    (fn.f = "extract_position_fields" /\ ~fn.raised
        /\ "positionId" \notin DOMAIN fn.p.d)
        => (fn.position_id = sEmpty /\ fn.closed)

\* C13, amended: extract on a record with neither a positionId nor an id
\* field never yields a position id that is not empty, hence never an
\* actionable position, whatever the other fields.
NoIdFieldNotActionable ==
    (fn.f = "extract_position_fields"
        /\ "positionId" \notin DOMAIN fn.p.d /\ "id" \notin DOMAIN fn.p.d)
        => (fn.raised \/ (fn.position_id = sEmpty /\ fn.closed))

\* qty 10, entry 100, value 1000, side long and no id of either name
NoIdFieldSeen ==
    /\ fn.f = "extract_position_fields" /\ ~fn.raised
    /\ DOMAIN fn.p.d = {"side", "qty", "avgOpenPrice", "positionValue"}
    /\ fn.side = sLONG /\ fn.qty = I(10) /\ fn.entry = I(100)
    /\ fn.notional = I(1000)
    /\ fn.position_id = sEmpty /\ fn.closed

\* C14: extract never raises: with each field missing, null, a string, a
\* number or malformed (a side value that is not a string included) it
\* returns the five fields, a missing or malformed one as 0 or empty.
ExtractNeverRaises ==
    fn.f = "extract_position_fields"
        => /\ ~fn.raised
           /\ "side" \notin DOMAIN fn.p.d => fn.side = sEmpty
           /\ "qty" \notin DOMAIN fn.p.d => fn.qty = Zero
           /\ "avgOpenPrice" \notin DOMAIN fn.p.d => fn.entry = Zero

\* C15: for a root r that does not end in USDT (r in upper case, as
\* symbol_variants makes it), symbol_variants(r) is the four spellings
\* rUSDT, r_USDT, r-USDT, rUSDT-PERP, and all four normalize to the same
\* value: normalize_symbol(r) followed by USDT.
VariantsNormalizeAlike ==
    (fn.f = "symbol_variants" /\ ~EndsWith(Upper(fn.s), sUSDT))
        => /\ Len(fn.out) = 4
           /\ fn.out[1] = Upper(fn.s) \o sUSDT
           /\ fn.out[2] = Upper(fn.s) \o <<"_">> \o sUSDT
           /\ fn.out[3] = Upper(fn.s) \o <<"-">> \o sUSDT
           /\ fn.out[4] = Upper(fn.s) \o sUSDT \o <<"-">> \o sPERP
           /\ \A i \in 1..4 : fn.norms[i] = normalize_symbol(fn.s) \o sUSDT

\* BTC: BTCUSDT, BTC_USDT, BTC-USDT, BTCUSDT-PERP, all normalized to BTCUSDT
VariantsNormalizeAlikeSeen ==
    /\ fn.f = "symbol_variants"
    /\ fn.s = <<"B","T","C">>
    /\ fn.out[4] = sBTCPerp
    /\ \A i \in 1..4 : fn.norms[i] = sBTCUSDT

PlacedStopPositive ==
    PlacementIssued
        => /\ RLt(Zero, last.stop_q)
           /\ last.calls[3].body.slPrice = StrOfFloat(last.stop_q)

\* C18: every placement, cancel and instrument call targets a symbol whose
\* normalized form is that of the user's symbol of the iteration: the
\* spelling the exchange reported when a matching record was found in the
\* iteration, the user's symbol otherwise; and the id of a placement is that
\* of a record whose symbol matched.
SingleSymbolScope ==
    /\ \A i \in 1..Len(last.calls) :
          last.calls[i].op # "list"
              => /\ normalize_symbol(last.calls[i].symbol)
                        = normalize_symbol(last.symbol_before)
                 /\ last.calls[i].symbol =
                        IF last.found THEN last.api_symbol ELSE last.symbol_before
    /\ PlacementIssued
          => /\ last.found
             /\ normalize_symbol(last.api_symbol) = normalize_symbol(last.symbol_before)
             /\ last.calls[3].body.symbol = last.api_symbol
             /\ last.calls[3].body.positionId = last.position_id

\* the user's BTCUSDT, managed under the exchange's spelling BTC_USDT
SingleSymbolScopeSeen ==
    /\ last.path = "placed"
    /\ last.symbol_before = sBTCUSDT
    /\ last.calls[2].symbol = <<"B","T","C","_","U","S","D","T">>
    /\ last.calls[3].body.symbol = <<"B","T","C","_","U","S","D","T">>
    /\ last.calls[3].body.positionId = <<"7">>

\* C20: only the side LONG or BUY (after uppercasing) gives
\* stop = entry - delta; every other side (SHORT, SELL, empty or missing,
\* any other word) gives stop = entry + delta, and the side does not keep
\* the stop of such an actionable position from being placed.
SideHandling ==
    (Listed /\ ~NotActionable)
        => /\ last.side \in {sLONG, sBUY}
                 => last.stop_price =
                        RSub(last.entry,
                             RDiv(RMul(last.entry, last.budget_before), last.notional))
           /\ last.side \notin {sLONG, sBUY}
                 => /\ last.stop_price =
                           RAdd(last.entry,
                                RDiv(RMul(last.entry, last.budget_before), last.notional))
                    /\ (last.tick # Zero /\ BeyondEps(last.notional, last.ref_before))
                           => PlacementIssued

\* a position without a side, entry 50, notional 100, budget 50: 75 is placed
SideHandlingSeen ==
    /\ last.path = "placed"
    /\ last.side = sEmpty
    /\ last.entry = I(50) /\ last.notional = I(100) /\ last.budget_before = I(50)
    /\ last.stop_price = I(75)
    /\ PlacementSucceeded

\* the side is a word that is none of LONG, BUY, SHORT, SELL
SideHandlingOtherWordSeen ==
    /\ last.path = "placed"
    /\ last.side = <<"B","O","T","H">>
    /\ RLt(last.entry, last.stop_price)

(***************************************************************************)
(* The loop under weak fairness of its step: while the loop runs, an       *)
(* iteration is eventually taken (time.sleep returns and the next poll is  *)
(* made).                                                                  *)
(***************************************************************************)
SpecLive == Init /\ [][Next]_vars /\ WF_vars(Next)

\* every call of the iteration was answered with a JSON body and no error,
\* and the listing held an actionable position matching the symbol whose
\* stop is positive
HealthyTick ==
    /\ last.mode \in {"WATCHING", "MANAGING"}
    /\ \A i \in 1..Len(last.calls) :
          last.calls[i].resp = "json" /\ ~last.calls[i].raised
    /\ last.found /\ ~NotActionable
    /\ RLt(Zero, ClosedFormStop(last.side, last.entry, last.budget_before,
                                last.notional))

\* C19: if from some point on every exchange call that is made succeeds and
\* every listing holds an actionable position matching the user's symbol
\* with a positive stop (and the user does not interrupt), the loop
\* eventually is in MANAGING and eventually issues a placement for it.
PlacementEventually ==
    ([](pc # "interrupted") /\ <>[](pc = "loop" => HealthyTick))
        => (<>estado /\ <>PlacementSucceeded)

====
